---- MODULE Spec2Model ----
(***************************************************************************)
(* A model of fitness.py: the FitnessList statistics, the scaling engine   *)
(* (Fitness), the roulette wheel and tournament primitives (Selection,     *)
(* Tournament) and the selection / replacement strategies built on them.   *)
(*                                                                         *)
(* Python floats are modelled as exact numbers [n, d, f] standing for      *)
(* n/d + f * 1e-11: a reduced fraction plus a "fine" part counted in units *)
(* of 1e-11, one tenth of the roulette wheel's rounding step.  The fine    *)
(* part is only ever non-zero in weights handed directly to the roulette   *)
(* wheel; it is what lets the model tell a total of 0.99999999996 from 1.0 *)
(* without leaving TLC's integer range.                                    *)
(***************************************************************************)
EXTENDS Integers, Sequences, FiniteSets

\* ---------------------------------------------------------------- bounds
MaxLen == 4            \* longest FitnessList of the statistics specification
MaxScore == 2          \* raw scores range over -MaxScore .. MaxScore
MaxPop == 3            \* largest population handed to a strategy
MaxRateDen == 4        \* rates are the fractions k/d with d <= MaxRateDen
MaxSelects == 2        \* select() calls made on one strategy instance
MaxTourPop == 3        \* largest population handed to a tournament
MaxTourSize == 2       \* largest tournament size tried
MaxWheel == 2          \* longest weight vector given directly to the roulette wheel
WheelDen == 4          \* those weights are the fractions k/WheelDen (plus a fine part)
MaxPropPop == 2        \* largest population handed to FitnessProportionate
MaxExponent == 3       \* exponents tried for exponential scaling: 0 .. MaxExponent
MaxRankingPop == 3     \* largest population handed to a ranking strategy
FactorDen == 2         \* worstfactor, bestfactor are the fractions k/FactorDen in 0 .. 2

\* ------------------------------------------------------ module constants
MAX == "max"
MIN == "min"
CENTER == "center"
FITNESS_TYPES == {MAX, MIN, CENTER}
None == "None"

\* ---------------------------------------------------------------- floats
RECURSIVE Gcd(_, _)
Gcd(a, b) == IF b = 0 THEN a ELSE Gcd(b, a % b)

AbsInt(x) == IF x < 0 THEN -x ELSE x

\* the float n/d (d # 0), reduced, denominator positive
Q(n, d) ==
    LET g == Gcd(AbsInt(n), AbsInt(d))
        s == IF d < 0 THEN -1 ELSE 1
    IN  [n |-> (s * n) \div g, d |-> (s * d) \div g, f |-> 0]

Zero == Q(0, 1)
One == Q(1, 1)

Add(a, b) == [Q(a.n * b.d + b.n * a.d, a.d * b.d) EXCEPT !.f = a.f + b.f]
Sub(a, b) == [Q(a.n * b.d - b.n * a.d, a.d * b.d) EXCEPT !.f = a.f - b.f]
Mul(a, b) == Q(a.n * b.n, a.d * b.d)
Div(a, b) == Q(a.n * b.d, a.d * b.n)
Abs(a) == IF a.n < 0 \/ (a.n = 0 /\ a.f < 0) THEN [a EXCEPT !.n = -a.n, !.f = -a.f] ELSE a

\* a < b: the fractions decide, the fine parts break a tie between equal fractions
Less(a, b) ==
    \/ a.n * b.d < b.n * a.d
    \/ a.n * b.d = b.n * a.d /\ a.f < b.f
Leq(a, b) == ~Less(b, a)

RECURSIVE SumSeq(_)
SumSeq(s) == IF s = <<>> THEN Zero ELSE Add(SumSeq(SubSeq(s, 1, Len(s) - 1)), s[Len(s)])

Range(s) == {s[i] : i \in 1..Len(s)}
Reverse(s) == [i \in 1..Len(s) |-> s[Len(s) + 1 - i]]

\* ------------------------------------------------------- list.sort()
\* Python compares [value, member] lists lexicographically
PairLess(a, b) == Less(a[1], b[1]) \/ (a[1] = b[1] /\ a[2] < b[2])

RECURSIVE SortSet(_)
SortSet(S) ==
    IF S = {} THEN <<>>
    ELSE LET m == CHOOSE x \in S : \A y \in S : y = x \/ PairLess(x, y)
         IN  <<m>> \o SortSet(S \ {m})

\* s.sort() and s.sort(reverse=True) on a list of distinct [value, member] pairs
SortAsc(s) == SortSet(Range(s))
SortDesc(s) == Reverse(SortSet(Range(s)))

\* ----------------------------------------------------------------- state
VARIABLES
    fitness_list,      \* FitnessList: sequence of <<score, member>> (member ids 0-based)
    fitness_type,      \* FitnessList._fitness_type
    target_value,      \* FitnessList._target_value: <<t>>, or <<>> for None
    op,                \* the last method called
    arg,               \* the param argument given to the last select(param)
    ret,               \* what it returned
    err,               \* the exception the last call raised, or None
    self,              \* the strategy instance built over the list (its attributes)
    gen,               \* the generator returned by the last select(): its frame
    out,               \* the member ids that generator has yielded so far
    drained            \* list(select()) of each rank strategy generator drained so far

vars == <<fitness_list, fitness_type, target_value, op, arg, ret, err, self, gen, out, drained>>
listVars == <<fitness_list, fitness_type, target_value>>

Scores == -MaxScore .. MaxScore
\* target_value is None (the empty tuple here) or one float <<t>>
NoTarget == <<>>
Targets == {NoTarget, <<0>>, <<2>>}

\* select(param): param is None, a float, or a one-element list [v]
NoParam == [t |-> "None", v |-> Zero]
FloatParam(v) == [t |-> "float", v |-> v]
ListParam(v) == [t |-> "list", v |-> v]

\* no strategy instance, no generator
NoSelf ==
    [kind |-> None, selection_list |-> <<>>, selection_type |-> None, minmax |-> None,
     tournament_size |-> 0, rate |-> Zero, replacement_count |-> 0,
     scaling_type |-> None, worstfactor |-> Zero, bestfactor |-> Zero,
     trunc_rate |-> Zero]
NoGen == [fn |-> None, pc |-> "none", call |-> 0]

\* ---------------------------------------------------------- FitnessList
\* the float held by item i (1-based position) of the list
Score(i) == Q(fitness_list[i][1], 1)
Member(i) == fitness_list[i][2]

\* FitnessList.sorted(): a new list of [key, member] pairs
sorted ==
    IF fitness_type = MIN THEN
        SortAsc([i \in 1..Len(fitness_list) |-> <<Score(i), Member(i)>>])
    ELSE IF fitness_type = MAX THEN
        SortDesc([i \in 1..Len(fitness_list) |-> <<Score(i), Member(i)>>])
    ELSE
        SortAsc([i \in 1..Len(fitness_list) |-> <<Abs(Score(i)), Member(i)>>])

\* min(values) / max(values) over the items themselves: the whole [score, member] item
min_value == SortAsc([i \in 1..Len(fitness_list) |-> <<Score(i), Member(i)>>])[1]
max_value == SortDesc([i \in 1..Len(fitness_list) |-> <<Score(i), Member(i)>>])[1]

best_value ==
    IF fitness_type = MIN THEN min_value
    ELSE IF fitness_type = MAX THEN max_value
    ELSE sorted[1][1]

min_member ==
    IF fitness_type = MAX THEN sorted[Len(sorted)][2] ELSE sorted[1][2]

max_member ==
    IF fitness_type = MAX THEN sorted[1][2] ELSE sorted[Len(sorted)][2]

best_member ==
    IF fitness_type = MAX THEN max_member ELSE min_member

\* FitnessList.median() under Python 2: half = length / 2 is the floor, and the
\* test reads half - (length % 2) == 0
median ==
    LET length == Len(fitness_list)
        half == length \div 2
    IN  IF half - (length % 2) = 0
        THEN Div(Add(sorted[half][1], sorted[half + 1][1]), Q(2, 1))
        ELSE sorted[half + 1][1]

InitList ==
    /\ fitness_list = <<>>
    /\ fitness_type \in FITNESS_TYPES
    /\ target_value \in Targets
    /\ op = None /\ arg = NoParam
    /\ ret = None
    /\ err = None
    /\ self = NoSelf
    /\ gen = NoGen
    /\ out = <<>>
    /\ drained = <<>>

\* list.append([score, member]) by the driver, member ids in insertion order
append(score) ==
    /\ Len(fitness_list) < MaxLen
    /\ fitness_list' = Append(fitness_list, <<score, Len(fitness_list)>>)
    /\ op' = "append" /\ arg' = NoParam
    /\ ret' = None
    /\ err' = None
    /\ UNCHANGED <<fitness_type, target_value, self, gen, out, drained>>

CallSorted ==
    /\ op' = "sorted" /\ arg' = NoParam
    /\ ret' = sorted
    /\ err' = None
    /\ UNCHANGED <<listVars, self, gen, out, drained>>

CallMedian ==
    /\ op' = "median" /\ arg' = NoParam
    /\ IF fitness_list = <<>>
       THEN ret' = None /\ err' = "IndexError"
       ELSE ret' = median /\ err' = None
    /\ UNCHANGED <<listVars, self, gen, out, drained>>

CallBestValue ==
    /\ op' = "best_value" /\ arg' = NoParam
    /\ IF fitness_list = <<>>
       THEN ret' = None /\ err' = IF fitness_type = CENTER THEN "IndexError" ELSE "ValueError"
       ELSE ret' = best_value /\ err' = None
    /\ UNCHANGED <<listVars, self, gen, out, drained>>

CallBestMember ==
    /\ op' = "best_member" /\ arg' = NoParam
    /\ IF fitness_list = <<>>
       THEN ret' = None /\ err' = "IndexError"
       ELSE ret' = best_member /\ err' = None
    /\ UNCHANGED <<listVars, self, gen, out, drained>>

NextList ==
    \/ \E score \in Scores : append(score)
    \/ CallSorted
    \/ CallMedian
    \/ CallBestValue
    \/ CallBestMember

SpecList == InitList /\ [][NextList]_vars

\* ------------------------------------------------------ Selection, Fitness
\* the populations the driver hands to a strategy: lists of n records over S,
\* member ids 0 .. n-1 in insertion order
Populations(n, S) == {[i \in 1..n |-> <<f[i], i - 1>>] : f \in [1..n -> S]}

TargetQ == Q(target_value[1], 1)

\* Fitness.set_fitness_list: the working vector built from the fitness list
set_fitness_list ==
    IF fitness_type = CENTER
    THEN [i \in 1..Len(fitness_list) |->
            IF Score(i) # Zero THEN Abs(Sub(Score(i), TargetQ)) ELSE Zero]
    ELSE [i \in 1..Len(fitness_list) |-> Score(i)]

\* abs(score - None) raises TypeError: a CENTER list with no target value and a
\* non-zero score cannot be given to a strategy
CenterTypeError ==
    /\ fitness_type = CENTER
    /\ target_value = NoTarget
    /\ \E i \in 1..Len(fitness_list) : Score(i) # Zero

\* Fitness.__init__(fitness_list) on a new instance of class kind
Fitness__init__(kind) ==
    [NoSelf EXCEPT !.kind = kind, !.selection_type = MAX,
                   !.selection_list = set_fitness_list]

_invert(value) == IF value = Zero THEN Zero ELSE Div(One, value)

\* Fitness._scale_list: the instance after scaling
_scale_list(obj) ==
    LET inverse ==
            \/ obj.selection_type = MAX /\ fitness_type = MIN
            \/ obj.selection_type = MIN /\ fitness_type = MAX
            \/ obj.selection_type = MAX /\ fitness_type = CENTER
    IN  IF inverse
        THEN [obj EXCEPT !.selection_list =
                [i \in 1..Len(obj.selection_list) |-> _invert(obj.selection_list[i])]]
        ELSE obj

\* Selection._make_sort_list: [value, position] pairs
_make_sort_list(obj) ==
    [i \in 1..Len(obj.selection_list) |-> <<obj.selection_list[i], i - 1>>]

\* int(round(x)) for x >= 0: Python 2 rounds half away from zero
Round(x) == (2 * x.n + x.d) \div (2 * x.d)

\* s[:k]
Slice(s, k) ==
    IF k >= 0
    THEN SubSeq(s, 1, IF k < Len(s) THEN k ELSE Len(s))
    ELSE SubSeq(s, 1, IF Len(s) + k > 0 THEN Len(s) + k ELSE 0)

\* calling a generator function only creates its frame; out restarts empty
NewGen(fn) == [fn |-> fn, pc |-> "start", call |-> gen.call + 1, items |-> <<>>, k |-> 0]

\* a suspended `for item in items: yield item[1]` resumed at item k
YieldFrom(items, k) ==
    IF k < Len(items)
    THEN /\ gen' = [gen EXCEPT !.pc = "suspended", !.items = items, !.k = k + 1]
         /\ out' = Append(out, items[k + 1][2])
    ELSE /\ gen' = [gen EXCEPT !.pc = "done", !.items = items]
         /\ out' = out

\* ------------------------------------------------------------ FitnessElites
Rates == UNION {{Q(k, d) : k \in 0..d + 1} : d \in 1..MaxRateDen}

\* FitnessElites.__init__: set_rate accepts every float
NewFitnessElites(rate) ==
    /\ self.kind = None /\ err = None
    /\ op' = "FitnessElites" /\ arg' = NoParam
    /\ ret' = None
    /\ IF CenterTypeError
       THEN err' = "TypeError" /\ self' = self
       ELSE /\ err' = None
            /\ self' = [Fitness__init__("FitnessElites") EXCEPT
                            !.rate = rate, !.selection_type = MIN]
    /\ UNCHANGED <<listVars, gen, out, drained>>

\* the items FitnessElites.select() goes on to yield, given the scaled instance
ElitesItems(obj) ==
    LET sort_list == SortAsc(_make_sort_list(obj))
        elites == Round(Mul(obj.rate, Q(Len(sort_list), 1)))
    IN  Slice(sort_list, elites)

ElitesSelect ==
    /\ self.kind = "FitnessElites"
    /\ gen.call < MaxSelects
    /\ gen' = NewGen("FitnessElites.select")
    /\ out' = <<>>
    /\ op' = "select" /\ arg' = NoParam
    /\ UNCHANGED <<listVars, ret, err, self, drained>>

\* next() on the generator: the body runs to its next yield, or to its end
ElitesNext ==
    /\ gen.fn = "FitnessElites.select"
    /\ gen.pc \in {"start", "suspended"}
    /\ op' = "next" /\ arg' = arg
    /\ IF gen.pc = "start"
       THEN /\ self' = _scale_list(self)
            /\ YieldFrom(ElitesItems(_scale_list(self)), 0)
       ELSE /\ self' = self
            /\ YieldFrom(gen.items, gen.k)
    /\ drained' = IF gen'.pc = "done" THEN Append(drained, out') ELSE drained
    /\ UNCHANGED <<listVars, ret, err>>

\* --------------------------------------------------- ReplacementDeleteWorst
Counts == -1 .. MaxPop + 1

\* ReplacementDeleteWorst.__init__: set_replacement_count rejects a count
\* with 0.0 < count <= 1.0
NewReplacementDeleteWorst(replacement_count) ==
    /\ self.kind = None /\ err = None
    /\ op' = "ReplacementDeleteWorst" /\ arg' = NoParam
    /\ ret' = None
    /\ IF CenterTypeError
       THEN err' = "TypeError" /\ self' = self
       ELSE IF 0 < replacement_count /\ replacement_count <= 1
       THEN err' = "ValueError" /\ self' = self
       ELSE /\ err' = None
            /\ self' = [Fitness__init__("ReplacementDeleteWorst") EXCEPT
                            !.replacement_count = replacement_count,
                            !.selection_type = MIN]
    /\ UNCHANGED <<listVars, gen, out, drained>>

DeleteWorstItems(obj) ==
    Slice(SortDesc(_make_sort_list(obj)), obj.replacement_count)

DeleteWorstSelect ==
    /\ self.kind = "ReplacementDeleteWorst"
    /\ gen.call < MaxSelects
    /\ gen' = NewGen("ReplacementDeleteWorst.select")
    /\ out' = <<>>
    /\ op' = "select" /\ arg' = NoParam
    /\ UNCHANGED <<listVars, ret, err, self, drained>>

DeleteWorstNext ==
    /\ gen.fn = "ReplacementDeleteWorst.select"
    /\ gen.pc \in {"start", "suspended"}
    /\ op' = "next" /\ arg' = arg
    /\ IF gen.pc = "start"
       THEN /\ self' = _scale_list(self)
            /\ YieldFrom(DeleteWorstItems(_scale_list(self)), 0)
       ELSE /\ self' = self
            /\ YieldFrom(gen.items, gen.k)
    /\ drained' = IF gen'.pc = "done" THEN Append(drained, out') ELSE drained
    /\ UNCHANGED <<listVars, ret, err>>

\* a strategy is built over a list the driver has filled
InitStrategy(S, maxpop) ==
    /\ fitness_list \in UNION {Populations(n, S) : n \in 0..maxpop}
    /\ fitness_type \in FITNESS_TYPES
    /\ target_value \in Targets
    /\ op = None /\ arg = NoParam
    /\ ret = None
    /\ err = None
    /\ self = NoSelf
    /\ gen = NoGen
    /\ out = <<>>
    /\ drained = <<>>

InitRank == InitStrategy(Scores, MaxPop)

NextRank ==
    \/ \E rate \in Rates : NewFitnessElites(rate)
    \/ ElitesSelect
    \/ ElitesNext
    \/ \E replacement_count \in Counts : NewReplacementDeleteWorst(replacement_count)
    \/ DeleteWorstSelect
    \/ DeleteWorstNext

SpecRank == InitRank /\ [][NextRank]_vars

\* ---------------------------------------------------------------- Tournament
\* Tournament.set_tournament_size, for an int: too large for a non-empty list
TournamentSizeError(obj, tournament_size) ==
    obj.selection_list # <<>> /\ tournament_size > Len(obj.selection_list)

\* the loop test of Tournament.select
\* (variant: the test off by one, position <= population_size)
MoreDrawsOff(position, population_size) == position <= population_size
MoreDraws(position, population_size) == position < population_size

\* values.index(value): the first position of value in values
Index(values, value) == CHOOSE i \in 1..Len(values) :
    values[i] = value /\ \A j \in 1..i - 1 : values[j] # value

MaxOf(values) == CHOOSE v \in Range(values) : \A w \in Range(values) : Leq(w, v)
MinOf(values) == CHOOSE v \in Range(values) : \A w \in Range(values) : Leq(v, w)

\* the winner of one tournament
\* (variant: max and min exchanged)
t_winnerOff(minmax, t_list, values) ==
    LET value == IF minmax = MAX THEN MinOf(values) ELSE MaxOf(values)
    IN  t_list[Index(values, value)]
t_winner(minmax, t_list, values) ==
    LET value == IF minmax = MAX THEN MaxOf(values) ELSE MinOf(values)
    IN  t_list[Index(values, value)]

TourSizes == 0 .. MaxTourSize

\* FitnessTournament.__init__
NewFitnessTournament(tournament_size) ==
    /\ self.kind = None /\ err = None
    /\ op' = "FitnessTournament" /\ arg' = NoParam
    /\ ret' = None
    /\ IF CenterTypeError
       THEN err' = "TypeError" /\ self' = self
       ELSE LET obj == [Fitness__init__("FitnessTournament") EXCEPT
                            !.minmax = IF fitness_type = MAX THEN MAX ELSE MIN]
            IN  IF TournamentSizeError(obj, tournament_size)
                THEN err' = "ValueError" /\ self' = self
                ELSE /\ err' = None
                     /\ self' = [obj EXCEPT !.tournament_size = tournament_size]
    /\ UNCHANGED <<listVars, gen, out, drained>>

\* ReplacementTournament.__init__
NewReplacementTournament(tournament_size) ==
    /\ self.kind = None /\ err = None
    /\ op' = "ReplacementTournament" /\ arg' = NoParam
    /\ ret' = None
    /\ IF CenterTypeError
       THEN err' = "TypeError" /\ self' = self
       ELSE LET obj == Fitness__init__("ReplacementTournament")
            IN  IF TournamentSizeError(obj, tournament_size)
                THEN err' = "ValueError" /\ self' = self
                ELSE /\ err' = None
                     /\ self' = [obj EXCEPT
                            !.tournament_size = tournament_size,
                            !.minmax = IF fitness_type = MAX THEN MIN ELSE MAX]
    /\ UNCHANGED <<listVars, gen, out, drained>>

\* Tournament.select(): the generator's frame
TournamentSelect ==
    /\ self.kind \in {"FitnessTournament", "ReplacementTournament"}
    /\ gen' = [fn |-> "Tournament.select", pc |-> "start", call |-> 1,
               position |-> 0, t_list |-> <<>>, values |-> <<>>]
    /\ out' = <<>>
    /\ op' = "select" /\ arg' = NoParam
    /\ UNCHANGED <<listVars, ret, err, self, drained>>

TournamentRunning ==
    gen.fn = "Tournament.select" /\ gen.pc \in {"start", "suspended", "sampling"}
\* where the frame stands once resumed: a frame suspended at the yield first
\* runs position += 1, and a new round of the outer loop empties t_list
TourPosition == IF gen.pc = "suspended" THEN gen.position + 1 ELSE gen.position
TourList == IF gen.pc = "sampling" THEN gen.t_list ELSE <<>>
TourValues == IF gen.pc = "sampling" THEN gen.values ELSE <<>>

\* one round of the inner loop: rand_position = random.randint(0, population_size - 1)
TournamentSample(rand_position) ==
    /\ TournamentRunning
    /\ MoreDraws(TourPosition, Len(self.selection_list))
    /\ Len(TourList) < self.tournament_size
    /\ gen' = [gen EXCEPT !.pc = "sampling", !.position = TourPosition,
                          !.t_list = Append(TourList, rand_position),
                          !.values = Append(TourValues,
                                            self.selection_list[rand_position + 1])]
    /\ op' = "next" /\ arg' = arg
    /\ UNCHANGED <<listVars, ret, err, self, out, drained>>

\* the inner loop is over: yield t_winner
TournamentYield ==
    /\ TournamentRunning
    /\ gen.pc = "sampling"
    /\ Len(gen.t_list) >= self.tournament_size
    /\ out' = Append(out, t_winner(self.minmax, gen.t_list, gen.values))
    /\ gen' = [gen EXCEPT !.pc = "suspended"]
    /\ op' = "next" /\ arg' = arg
    /\ UNCHANGED <<listVars, ret, err, self, drained>>

\* a tournament of size 0 samples nothing: max([]) / min([]) raises ValueError
TournamentRaise ==
    /\ TournamentRunning
    /\ gen.pc # "sampling"
    /\ MoreDraws(TourPosition, Len(self.selection_list))
    /\ self.tournament_size <= 0
    /\ gen' = [gen EXCEPT !.pc = "raised", !.position = TourPosition,
                          !.t_list = <<>>, !.values = <<>>]
    /\ err' = "ValueError"
    /\ op' = "next" /\ arg' = arg
    /\ UNCHANGED <<listVars, ret, self, out, drained>>

\* the outer loop is over: the generator ends
TournamentStop ==
    /\ TournamentRunning
    /\ gen.pc # "sampling"
    /\ ~MoreDraws(TourPosition, Len(self.selection_list))
    /\ gen' = [gen EXCEPT !.pc = "done", !.position = TourPosition]
    /\ op' = "next" /\ arg' = arg
    /\ UNCHANGED <<listVars, ret, err, self, out, drained>>

TourScores == {0, 1}
InitTournament == InitStrategy(TourScores, MaxTourPop)

NextTournament ==
    \/ \E tournament_size \in TourSizes : NewFitnessTournament(tournament_size)
    \/ \E tournament_size \in TourSizes : NewReplacementTournament(tournament_size)
    \/ TournamentSelect
    \/ \E rand_position \in 0..Len(self.selection_list) - 1 : TournamentSample(rand_position)
    \/ TournamentYield
    \/ TournamentRaise
    \/ TournamentStop

SpecTournament == InitTournament /\ [][NextTournament]_vars

\* ------------------------------------------------ Selection._roulette_wheel
\* round(total, 10) == 1.0: the fraction is 1 and the fine part, counted in
\* units of 1e-11, rounds to no whole step of 1e-10 (2 * |f| < 10)
\* (variant: the fine part of the total is not looked at)
RoundsToOneOff(total) == total.n = total.d
RoundsToOne(total) == total.n = total.d /\ 2 * AbsInt(total.f) < 10

\* cumu = [0.0, s[0], s[0] + s[1], ...]
Cumu(scale_list) ==
    [p \in 1..Len(scale_list) + 1 |-> SumSeq(SubSeq(scale_list, 1, p - 1))]

\* the while loop of one draw: the first position whose cumu[position + 1]
\* exceeds rand_val, or length when the loop runs out without a yield
Position(cumu, rand_val) ==
    LET length == Len(cumu) - 1
        hits == {p \in 0..length - 1 : Less(rand_val, cumu[p + 2])}
    IN  IF hits = {} THEN length
        ELSE CHOOSE p \in hits : \A q \in hits : p <= q

\* calling _roulette_wheel(scale_list) creates the generator's frame
RouletteGen(scale_list) ==
    [fn |-> "_roulette_wheel", pc |-> "start", call |-> gen.call + 1,
     scale_list |-> scale_list, cumu |-> <<>>, i |-> 0, rand_val |-> Zero]

\* the first next() starts the body: the total is checked, cumu is built
RouletteStart ==
    /\ gen.fn = "_roulette_wheel"
    /\ gen.pc = "start"
    /\ op' = "next" /\ arg' = arg
    /\ IF ~RoundsToOne(SumSeq(gen.scale_list))
       THEN /\ gen' = [gen EXCEPT !.pc = "raised"]
            /\ err' = "ValueError"
       ELSE /\ gen' = [gen EXCEPT !.pc = "drawing", !.cumu = Cumu(gen.scale_list)]
            /\ err' = err
    /\ UNCHANGED <<listVars, ret, self, out, drained>>

\* one round of `for i in xrange(length)`: rand_val = random.random(), then the
\* scan, which yields a position or runs out
RouletteDraw(rand_val) ==
    /\ gen.fn = "_roulette_wheel"
    /\ gen.pc = "drawing"
    /\ gen.i < Len(gen.scale_list)
    /\ op' = "next" /\ arg' = arg
    /\ gen' = [gen EXCEPT !.i = @ + 1, !.rand_val = rand_val]
    /\ LET position == Position(gen.cumu, rand_val)
       IN  out' = IF position < Len(gen.scale_list) THEN Append(out, position) ELSE out
    /\ UNCHANGED <<listVars, ret, err, self, drained>>

RouletteStop ==
    /\ gen.fn = "_roulette_wheel"
    /\ gen.pc = "drawing"
    /\ gen.i >= Len(gen.scale_list)
    /\ op' = "next" /\ arg' = arg
    /\ gen' = [gen EXCEPT !.pc = "done"]
    /\ UNCHANGED <<listVars, ret, err, self, out, drained>>

\* random.random(): values of [0.0, 1.0), among them 1 - 2e-11 and 1 - 6e-11
RandVals ==
    {Q(k, WheelDen) : k \in 0..WheelDen - 1}
        \cup {[One EXCEPT !.f = -2], [One EXCEPT !.f = -6]}

\* the weights a caller may pass: k/WheelDen, exact or off by a few 1e-11
Fines == {-10, -4, 0, 4}
Weights == {[Q(k, WheelDen) EXCEPT !.f = f] : k \in -1..WheelDen + 1, f \in Fines}
WeightVectors == UNION {[1..n -> Weights] : n \in 0..MaxWheel}

\* a direct call of the static method
CallRouletteWheel(scale_list) ==
    /\ self.kind = None
    /\ gen.fn = None
    /\ gen' = RouletteGen(scale_list)
    /\ out' = <<>>
    /\ op' = "_roulette_wheel" /\ arg' = NoParam
    /\ UNCHANGED <<listVars, ret, err, self, drained>>

InitRoulette ==
    /\ fitness_list = <<>>
    /\ fitness_type = MAX
    /\ target_value = NoTarget
    /\ op = None /\ arg = NoParam
    /\ ret = None
    /\ err = None
    /\ self = NoSelf
    /\ gen = NoGen
    /\ out = <<>>
    /\ drained = <<>>

NextRoulette ==
    \/ gen.fn = None /\ \E scale_list \in WeightVectors : CallRouletteWheel(scale_list)
    \/ RouletteStart
    \/ \E rand_val \in RandVals : RouletteDraw(rand_val)
    \/ RouletteStop

SpecRoulette == InitRoulette /\ [][NextRoulette]_vars

\* ------------------------------------------------------ Fitness._make_prob_list
\* (variant: the total is taken before the vector is scaled)
_make_prob_listOff(obj) ==
    LET total == SumSeq(obj.selection_list)
    IN  IF total # Zero
        THEN [_scale_list(obj) EXCEPT !.selection_list =
                [i \in 1..Len(@) |-> Div(@[i], total)]]
        ELSE _scale_list(obj)
_make_prob_list(obj) ==
    LET scaled == _scale_list(obj)
        total == SumSeq(scaled.selection_list)
    IN  IF total # Zero
        THEN [scaled EXCEPT !.selection_list = [i \in 1..Len(@) |-> Div(@[i], total)]]
        ELSE scaled

\* ------------------------------------------------------ FitnessProportionate
scaling_types == {"linear", "truncation", "exponential", "logarithmic"}

\* FitnessProportionate._check_minmax raises ValueError: min() of an empty
\* list, values of both signs, or a negative value under logarithmic scaling
CheckMinmaxError(obj, scaling_type) ==
    \/ obj.selection_list = <<>>
    \/ /\ Less(MinOf(obj.selection_list), Zero)
       /\ Less(Zero, MaxOf(obj.selection_list))
    \/ /\ Less(MinOf(obj.selection_list), Zero)
       /\ scaling_type = "logarithmic"

NewFitnessProportionate(scaling_type) ==
    /\ self.kind = None /\ err = None
    /\ op' = "FitnessProportionate" /\ arg' = NoParam
    /\ ret' = None
    /\ IF CenterTypeError
       THEN err' = "TypeError" /\ self' = self
       ELSE LET obj == Fitness__init__("FitnessProportionate")
            IN  IF scaling_type \notin scaling_types \/ CheckMinmaxError(obj, scaling_type)
                THEN err' = "ValueError" /\ self' = self
                ELSE /\ err' = None
                     /\ self' = [obj EXCEPT !.scaling_type = scaling_type]
    /\ UNCHANGED <<listVars, gen, out, drained>>

\* `if param:` a non-empty list, or a float other than 0.0
Truthy(param) == param.t = "list" \/ (param.t = "float" /\ param.v # Zero)

\* pow(item, exponent) for a whole exponent >= 0 (pow(0.0, 0) is 1.0)
RECURSIVE Pow(_, _)
Pow(item, exponent) == IF exponent = 0 THEN One ELSE Mul(item, Pow(item, exponent - 1))

\* math.log(item) for the powers of two, counted in units of ln 2 (the unit
\* cancels when the vector is normalized); other positive items are not modelled
RECURSIVE Log2Int(_)
Log2Int(k) == IF k <= 1 THEN 0 ELSE 1 + Log2Int(k \div 2)
RECURSIVE IsPow2Int(_)
IsPow2Int(k) == k = 1 \/ (k > 1 /\ k % 2 = 0 /\ IsPow2Int(k \div 2))
HasLog(item) == (item.n = 1 /\ IsPow2Int(item.d)) \/ (item.d = 1 /\ IsPow2Int(item.n))
Log(item) == IF item.d = 1 THEN Q(Log2Int(item.n), 1) ELSE Q(-Log2Int(item.d), 1)

\* the truncation branch: every entry below trunc becomes 0.0
Truncate(selection_list, trunc) ==
    [i \in 1..Len(selection_list) |->
        IF Less(selection_list[i], trunc) THEN Zero ELSE selection_list[i]]

\* the exception FitnessProportionate.select(param) raises, or None
PropSelectError(obj, param) ==
    IF obj.selection_list = <<>> THEN "ValueError"
    ELSE IF obj.scaling_type = "logarithmic"
            /\ \E i \in 1..Len(obj.selection_list) : Leq(obj.selection_list[i], Zero)
         THEN "ValueError"
    ELSE IF obj.scaling_type = "truncation" /\ ~Truthy(param) THEN "ValueError"
    ELSE None

\* the working vector after the scaling branch of select(param)
PropPre(obj, param) ==
    LET n == Len(obj.selection_list)
    IN  IF obj.scaling_type = "exponential"
        THEN [i \in 1..n |-> Pow(obj.selection_list[i],
                                 IF Truthy(param) THEN param.v.n ELSE 2)]
        ELSE IF obj.scaling_type = "logarithmic"
        THEN [i \in 1..n |-> Log(obj.selection_list[i])]
        ELSE IF obj.scaling_type = "truncation"
        THEN Truncate(obj.selection_list, param.v)
        ELSE obj.selection_list

\* the instance after that branch and the _make_prob_list that ends it
PropScaled(obj, param) ==
    _make_prob_list([obj EXCEPT !.selection_list = PropPre(obj, param)])

Exponents == {Q(e, 1) : e \in 0..MaxExponent}
Thresholds == {Q(t, 1) : t \in -1..MaxScore}
\* the params tried: none; [exponent] for exponential; a threshold for truncation
ParamsFor(scaling_type) ==
    {NoParam}
        \cup (IF scaling_type = "exponential" THEN {ListParam(e) : e \in Exponents} ELSE {})
        \cup (IF scaling_type = "truncation" THEN {FloatParam(t) : t \in Thresholds} ELSE {})

\* FitnessProportionate.select(param): returns the roulette wheel's generator
PropSelect(param) ==
    /\ self.kind = "FitnessProportionate"
    /\ gen.fn = None
    /\ param \in ParamsFor(self.scaling_type)
    /\ self.scaling_type = "logarithmic" =>
            \A i \in 1..Len(self.selection_list) :
                Leq(self.selection_list[i], Zero) \/ HasLog(self.selection_list[i])
    /\ op' = "select" /\ arg' = param
    /\ IF PropSelectError(self, param) # None
       THEN /\ err' = PropSelectError(self, param)
            /\ UNCHANGED <<self, gen, out>>
       ELSE /\ err' = None
            /\ self' = PropScaled(self, param)
            /\ gen' = RouletteGen(PropScaled(self, param).selection_list)
            /\ out' = <<>>
    /\ UNCHANGED <<listVars, ret, drained>>

PropScores == -2 .. 2
InitProp == InitStrategy(PropScores, MaxPropPop)

NextProp ==
    \/ \E scaling_type \in scaling_types \cup {None} : NewFitnessProportionate(scaling_type)
    \/ \E param \in UNION {ParamsFor(t) : t \in scaling_types} : PropSelect(param)
    \/ RouletteStart
    \/ \E rand_val \in RandVals : RouletteDraw(rand_val)
    \/ RouletteStop

SpecProp == InitProp /\ [][NextProp]_vars

\* ------------------------------------------------------ ranking strategies
\* an argument that is not a float: the int v
IntParam(v) == [t |-> "int", v |-> v]

\* select_list.sort() on [member_no, prob] pairs, then [item[1] for item in
\* select_list]: the probabilities in member order (member ids are 0 .. N-1)
ByMember(select_list) ==
    [i \in 1..Len(select_list) |->
        (CHOOSE item \in Range(select_list) : item[1] = i - 1)[2]]

\* ------------------------------------------------------ FitnessLinearRanking
Factors == {FloatParam(Q(k, FactorDen)) : k \in 0..2 * FactorDen} \cup {IntParam(One)}

\* FitnessLinearRanking.__init__: both factors must be floats
NewFitnessLinearRanking(worstfactor, bestfactor) ==
    /\ self.kind = None /\ err = None
    /\ op' = "FitnessLinearRanking" /\ arg' = NoParam
    /\ ret' = None
    /\ IF CenterTypeError
       THEN err' = "TypeError" /\ self' = self
       ELSE IF worstfactor.t # "float" \/ bestfactor.t # "float"
       THEN err' = "ValueError" /\ self' = self
       ELSE /\ err' = None
            /\ self' = [Fitness__init__("FitnessLinearRanking") EXCEPT
                            !.worstfactor = worstfactor.v,
                            !.bestfactor = bestfactor.v]
    /\ UNCHANGED <<listVars, gen, out, drained>>

\* FitnessLinearRanking._linear_ranking: the value of each i = 1.0 .. length,
\* for length >= 2
_linear_ranking(obj, sort_list) ==
    LET length == Q(Len(sort_list), 1)
    IN  [i \in 1..Len(sort_list) |->
            Mul(Div(One, length),
                Add(obj.worstfactor,
                    Div(Mul(Sub(obj.bestfactor, obj.worstfactor), Q(i - 1, 1)),
                        Sub(length, One))))]

\* the vector FitnessLinearRanking.select() hands to the roulette wheel, given
\* the scaled instance: sort_list is taken as _make_sort_list built it
LinearRankingList(obj) ==
    LET sort_list == _make_sort_list(obj)
        prob_list == IF Len(sort_list) = 0 THEN <<>> ELSE _linear_ranking(obj, sort_list)
        select_list == [i \in 1..Len(sort_list) |-> <<sort_list[i][2], prob_list[i]>>]
    IN  ByMember(select_list)

\* FitnessLinearRanking.select(): with one member, (i - 1.0) / (length - 1.0)
\* divides by zero
LinearRankingSelect ==
    /\ self.kind = "FitnessLinearRanking"
    /\ gen.fn = None
    /\ op' = "select" /\ arg' = NoParam
    /\ self' = _scale_list(self)
    /\ IF Len(self.selection_list) = 1
       THEN /\ err' = "ZeroDivisionError"
            /\ UNCHANGED <<gen, out>>
       ELSE /\ err' = None
            /\ gen' = RouletteGen(LinearRankingList(_scale_list(self)))
            /\ out' = <<>>
    /\ UNCHANGED <<listVars, ret, drained>>

\* -------------------------------------------------- FitnessTruncationRanking
TruncRates == {FloatParam(r) : r \in Rates} \cup {IntParam(Q(k, 1)) : k \in 0..2}

\* FitnessTruncationRanking.__init__: set_trunc_rate rejects only a value that
\* is not a float and lies in (0.0, 1.0]
NewFitnessTruncationRanking(trunc_rate) ==
    /\ self.kind = None /\ err = None
    /\ op' = "FitnessTruncationRanking" /\ arg' = NoParam
    /\ ret' = None
    /\ IF CenterTypeError
       THEN err' = "TypeError" /\ self' = self
       ELSE IF trunc_rate.t # "float" /\ Less(Zero, trunc_rate.v) /\ Leq(trunc_rate.v, One)
       THEN err' = "ValueError" /\ self' = self
       ELSE /\ err' = None
            /\ self' = [Fitness__init__("FitnessTruncationRanking") EXCEPT
                            !.trunc_rate = trunc_rate.v, !.selection_type = MIN]
    /\ UNCHANGED <<listVars, gen, out, drained>>

\* cutoff_rank = int(round(self._trunc_rate * length))
CutoffRank(obj) == Round(Mul(obj.trunc_rate, Q(Len(obj.selection_list), 1)))

\* the [member, probability] pairs before they are sorted back to member order
TruncProbList(obj) ==
    LET sort_list == SortDesc(_make_sort_list(obj))
        length == Len(sort_list)
        cutoff_rank == CutoffRank(obj)
    IN  [i \in 1..length |->
            IF i - 1 < cutoff_rank
            THEN <<sort_list[i][2], Div(One, Q(length - cutoff_rank, 1))>>
            ELSE <<sort_list[i][2], Zero>>]

\* select() divides by zero: 1.0 / float(length - cutoff_rank) when an entry
\* lies under a cutoff_rank equal to length, item / total when the total is 0.0
TruncSelectError(obj) ==
    LET length == Len(obj.selection_list)
        cutoff_rank == CutoffRank(obj)
    IN  length > 0 /\ (cutoff_rank = length \/ cutoff_rank = 0)

\* the normalized vector handed to the roulette wheel
TruncSelectList(obj) ==
    LET select_list == ByMember(TruncProbList(obj))
        total == SumSeq(select_list)
    IN  [i \in 1..Len(select_list) |-> Div(select_list[i], total)]

TruncationRankingSelect ==
    /\ self.kind = "FitnessTruncationRanking"
    /\ gen.fn = None
    /\ op' = "select" /\ arg' = NoParam
    /\ self' = _scale_list(self)
    /\ IF TruncSelectError(_scale_list(self))
       THEN /\ err' = "ZeroDivisionError"
            /\ UNCHANGED <<gen, out>>
       ELSE /\ err' = None
            /\ gen' = RouletteGen(TruncSelectList(_scale_list(self)))
            /\ out' = <<>>
    /\ UNCHANGED <<listVars, ret, drained>>

RankingScores == {0, 1, 2}
\* the target value is looked at for a CENTER list only
InitRanking ==
    /\ InitStrategy(RankingScores, MaxRankingPop)
    /\ fitness_type # CENTER => target_value = NoTarget

NextRanking ==
    \/ \E worstfactor \in Factors, bestfactor \in Factors :
            NewFitnessLinearRanking(worstfactor, bestfactor)
    \/ LinearRankingSelect
    \/ \E trunc_rate \in TruncRates : NewFitnessTruncationRanking(trunc_rate)
    \/ TruncationRankingSelect
    \/ RouletteStart
    \/ \E rand_val \in RandVals : RouletteDraw(rand_val)
    \/ RouletteStop

SpecRanking == InitRanking /\ [][NextRanking]_vars

\* ------------------------------------------------- claims: FitnessList
\* the raw score of member id m, and how good it is under the list's objective:
\* Goodness is smaller for a better member (MIN: the score, MAX: minus the
\* score, CENTER: the distance of the score from target_value)
ScoreOf(m) == Q(fitness_list[m + 1][1], 1)
Goodness(m) ==
    IF fitness_type = MIN THEN ScoreOf(m)
    ELSE IF fitness_type = MAX THEN Sub(Zero, ScoreOf(m))
    ELSE Abs(Sub(ScoreOf(m), TargetQ))
AtLeastAsGood(a, b) == Leq(Goodness(a), Goodness(b))
Members == {fitness_list[i][2] : i \in 1..Len(fitness_list)}

\* C7: sorted() returns a list of the same length whose member ids are a
\* permutation of the list's, ascending by raw score for MIN, descending for
\* MAX and, for CENTER, ascending by the distance of the score from target_value.
C7_SortedByObjective ==
    (op = "sorted" /\ (fitness_type = CENTER => target_value # NoTarget)) =>
        /\ Len(ret) = Len(fitness_list)
        /\ {ret[i][2] : i \in 1..Len(ret)} = Members
        /\ \A i \in 1..Len(ret) - 1 : AtLeastAsGood(ret[i][2], ret[i + 1][2])

\* C8: median() returns the key of the middle entry of sorted() for odd N and
\* the average of the keys of the two central entries for even N.
C8_MedianIsMiddle ==
    (op = "median" /\ err = None) =>
        LET N == Len(fitness_list)
        IN  ret = IF N % 2 = 1
                  THEN sorted[(N - 1) \div 2 + 1][1]
                  ELSE Div(Add(sorted[N \div 2][1], sorted[N \div 2 + 1][1]), Q(2, 1))

\* ---------------------------------------------- claims: rank strategies
Distinct(s) == Cardinality(Range(s)) = Len(s)
TargetGiven == fitness_type = CENTER => target_value # NoTarget
\* the first select() of the instance has been drained
Drained(fn) == gen.fn = fn /\ gen.pc = "done" /\ gen.call = 1

\* C1: with any rate in (0,1], draining FitnessElites.select() yields exactly
\* round(rate x N) distinct member ids, best first, and they are the
\* round(rate x N) objectively best members of the list.
C1_ElitesAreBest ==
    (/\ Drained("FitnessElites.select")
     /\ Less(Zero, self.rate) /\ Leq(self.rate, One)
     /\ TargetGiven) =>
        /\ Len(out) = Round(Mul(self.rate, Q(Len(fitness_list), 1)))
        /\ Distinct(out)
        /\ Range(out) \subseteq Members
        /\ \A i \in 1..Len(out) - 1 : AtLeastAsGood(out[i], out[i + 1])
        /\ \A m \in Members \ Range(out) : \A o \in Range(out) : AtLeastAsGood(o, m)

\* C2: with any accepted replacement_count k, 0 <= k <= N, draining
\* ReplacementDeleteWorst.select() yields exactly k distinct member ids, worst
\* first, and they are the k objectively worst members of the list.
C2_DeleteWorstAreWorst ==
    (/\ Drained("ReplacementDeleteWorst.select")
     /\ 0 <= self.replacement_count /\ self.replacement_count <= Len(fitness_list)
     /\ TargetGiven) =>
        /\ Len(out) = self.replacement_count
        /\ Distinct(out)
        /\ Range(out) \subseteq Members
        /\ \A i \in 1..Len(out) - 1 : AtLeastAsGood(out[i + 1], out[i])
        /\ \A m \in Members \ Range(out) : \A o \in Range(out) : AtLeastAsGood(m, o)

\* -------------------------------------------------- claims: tournaments
\* a tournament strategy built with 1 <= tournament_size <= N has been asked
\* to select
TournamentCase ==
    /\ gen.fn = "Tournament.select"
    /\ 1 <= self.tournament_size
    /\ self.tournament_size <= Len(fitness_list)

\* C3: draining select() of FitnessTournament / ReplacementTournament yields
\* exactly N member ids, each in [0, N), and then ends, whatever the random
\* choices are: never more than N ids, never an error, N ids once it has ended.
C3_TournamentYieldsPopulation ==
    TournamentCase =>
        /\ gen.pc # "raised"
        /\ Len(out) <= Len(fitness_list)
        /\ \A i \in 1..Len(out) : out[i] \in 0..Len(fitness_list) - 1
        /\ gen.pc = "done" => Len(out) = Len(fitness_list)

C3_Witness ==
    /\ TournamentCase
    /\ gen.pc = "done"
    /\ Len(out) = MaxTourPop
    /\ Cardinality(Range(out)) > 1

\* the tournament looks for the largest working value when it selects winners
\* of a MAX list or losers of a MIN / CENTER list, else for the smallest
SeeksLargest ==
    \/ self.kind = "FitnessTournament" /\ fitness_type = MAX
    \/ self.kind = "ReplacementTournament" /\ fitness_type # MAX
Working(position) == self.selection_list[position + 1]
Beats(a, b) == IF SeeksLargest THEN Less(Working(b), Working(a))
                               ELSE Less(Working(a), Working(b))

\* C4: every id yielded by a tournament is the first-sampled position, among
\* the tournament_size positions sampled for that draw, that holds the best
\* working value of the sample for FitnessTournament (max for MAX, min for MIN
\* and CENTER) and the worst one for ReplacementTournament.
C4_TournamentWinner ==
    (gen.fn = "Tournament.select" /\ gen.pc = "suspended") =>
        /\ Len(gen.t_list) = self.tournament_size
        /\ \E j \in 1..Len(gen.t_list) :
            /\ out[Len(out)] = gen.t_list[j]
            /\ \A k \in 1..Len(gen.t_list) : ~Beats(gen.t_list[k], gen.t_list[j])
            /\ \A k \in 1..j - 1 : Beats(gen.t_list[j], gen.t_list[k])

\* a draw whose first two samples are different positions holding the same,
\* best, value: the first one is yielded
C4_Witness ==
    /\ gen.fn = "Tournament.select" /\ gen.pc = "suspended"
    /\ self.kind = "ReplacementTournament" /\ fitness_type = CENTER
    /\ Len(gen.t_list) = 2
    /\ gen.t_list[1] # gen.t_list[2]
    /\ Working(gen.t_list[1]) = Working(gen.t_list[2])
    /\ \E p \in 0..Len(fitness_list) - 1 : Beats(gen.t_list[1], p)
    /\ out[Len(out)] = gen.t_list[1]

\* ------------------------------------------------ claims: roulette wheel
\* the body of the roulette wheel has started on its vector
WheelStarted == gen.fn = "_roulette_wheel" /\ gen.pc # "start"
WheelTotal == SumSeq(gen.scale_list)
SomeNegative == \E p \in 1..Len(gen.scale_list) : Less(gen.scale_list[p], Zero)
\* |total - 1.0| > 1e-10, i.e. more than 10 units of 1e-11
BeyondTolerance(total) == total.n # total.d \/ AbsInt(total.f) > 10
WheelRejected == gen.pc = "raised" /\ err = "ValueError" /\ out = <<>>

\* C5 as stated: the roulette wheel fails with ValueError, and produces no
\* draw, whenever some weight is negative or the sum differs from 1.0 by more
\* than the tolerance.
C5_RejectsNegativeOrBadTotal ==
    (WheelStarted /\ (SomeNegative \/ BeyondTolerance(WheelTotal))) => WheelRejected

\* C5 amended: the roulette wheel fails with ValueError, and produces no draw,
\* whenever the sum differs from 1.0 by more than the tolerance; the sign of
\* the weights is not checked: a vector whose sum is exactly 1.0 is accepted
\* even when it holds a negative weight.
C5_RejectsBadTotalOnly ==
    WheelStarted =>
        /\ BeyondTolerance(WheelTotal) => WheelRejected
        /\ WheelTotal = One => gen.pc # "raised" /\ err = None

\* a vector with a negative weight and sum 1.0 that has produced a draw
C5_Witness ==
    /\ WheelStarted
    /\ SomeNegative
    /\ WheelTotal = One
    /\ gen.pc = "done"
    /\ out # <<>>

\* C6: for every accepted vector of length N, draining the sampler produces
\* exactly N draws, each the smallest position p whose cumulative sum
\* weights[0] + ... + weights[p] is greater than the random value r of that
\* draw; no random value causes a draw to be skipped.
C6_EveryDrawYields ==
    (gen.fn = "_roulette_wheel" /\ gen.pc \in {"drawing", "done"}) =>
        /\ Len(out) = gen.i
        /\ gen.pc = "done" => Len(out) = Len(gen.scale_list)
        /\ gen.i > 0 =>
            LET p == out[Len(out)]
                Upto(q) == SumSeq(SubSeq(gen.scale_list, 1, q + 1))
            IN  /\ Less(gen.rand_val, Upto(p))
                /\ \A q \in 0..p - 1 : ~Less(gen.rand_val, Upto(q))

\* -------------------------------------------- claims: FitnessProportionate
\* FitnessProportionate.select(param) has just returned or raised
PropSelected == self.kind = "FitnessProportionate" /\ op = "select"

\* C9: _make_prob_list, applied to any working vector after
\* scale-for-direction: when the scaled vector's total is nonzero the result
\* sums to 1.0 and each entry is the scaled entry divided by the total; when
\* the total is exactly 0 the scaled vector is left as it is, without an error.
C9_MakeProbList ==
    [][(self.kind = "FitnessProportionate" /\ op' = "select" /\ err' = None) =>
        LET pre == [self EXCEPT !.selection_list = PropPre(self, arg')]
            scaled == _scale_list(pre).selection_list
            total == SumSeq(scaled)
            result == self'.selection_list
        IN  /\ Len(result) = Len(scaled)
            /\ total # Zero =>
                /\ SumSeq(result) = One
                /\ \A i \in 1..Len(result) : Mul(result[i], total) = scaled[i]
            /\ total = Zero => result = scaled]_vars

\* a MIN list, so scale-for-direction takes reciprocals, normalized to two
\* different probabilities
C9_Witness ==
    /\ PropSelected /\ err = None
    /\ fitness_type = MIN
    /\ Len(self.selection_list) = 2
    /\ SumSeq(self.selection_list) = One
    /\ Less(Zero, self.selection_list[1])
    /\ Less(self.selection_list[1], self.selection_list[2])

\* C10: with scaling_type 'truncation', select(param) fails with ValueError,
\* when it is called, exactly when no threshold is supplied; for every
\* supplied threshold (0.0 included) it does not fail, and every entry
\* strictly below the threshold gets 0.0 before the vector is normalized.
C10_TruncationNeedsThreshold ==
    (PropSelected /\ self.scaling_type = "truncation") =>
        /\ err = "ValueError" <=> arg.t = "None"
        /\ arg.t = "float" =>
            \A i \in 1..Len(self.selection_list) :
                Less(set_fitness_list[i], arg.v) => self.selection_list[i] = Zero

\* ------------------------------------------------ claims: ranking strategies
\* select() of a strategy of class kind has returned the roulette
\* wheel's generator; gen.scale_list is the probability vector in member order
WheelReturned(kind) == self.kind = kind /\ gen.fn = "_roulette_wheel"
Probability(m) == gen.scale_list[m + 1]
\* the 1-indexed position of member m in the ascending sort of the scaled
\* working vector
RankOf(m) ==
    LET sort_list == SortAsc(_make_sort_list(self))
    IN  CHOOSE i \in 1..Len(sort_list) : sort_list[i][2] = m
DistinctValues == \A a, b \in Members : a # b => Working(a) # Working(b)

\* C11: FitnessLinearRanking.select() over N >= 2 members gives the member
\* whose scaled working value has rank i the selection probability
\* (1/N) x (worstfactor + (bestfactor - worstfactor) x (i-1)/(N-1)): the
\* probability follows the rank, not the member id or the position in the list.
C11_ProbabilityByRank ==
    (/\ WheelReturned("FitnessLinearRanking")
     /\ Len(fitness_list) >= 2
     /\ DistinctValues) =>
        LET N == Len(fitness_list)
        IN  /\ Len(gen.scale_list) = N
            /\ \A m \in Members :
                Probability(m) =
                    Mul(Q(1, N),
                        Add(self.worstfactor,
                            Mul(Sub(self.bestfactor, self.worstfactor),
                                Q(RankOf(m) - 1, N - 1))))

\* FitnessTruncationRanking.select() has been called
TruncationCase ==
    /\ self.kind = "FitnessTruncationRanking"
    /\ op \in {"select", "next"}
    /\ Less(Zero, self.trunc_rate) /\ Leq(self.trunc_rate, One)
    /\ Len(fitness_list) >= 1
\* the members at positions < cutoff_rank of the descending sort of the scaled
\* working vector
AboveCutoff ==
    LET sort_list == SortDesc(_make_sort_list(self))
    IN  {sort_list[i][2] : i \in 1..CutoffRank(self)}

\* C12: for every trunc_rate in (0,1], 1.0 included, and every list of N >= 1
\* records, FitnessTruncationRanking.select() completes without error and
\* returns a roulette wheel of N draws over a vector in member order in which
\* exactly the cutoff_rank = round(trunc_rate x N) members at positions
\* < cutoff_rank of the descending sort of the scaled working vector have one
\* equal non-zero probability and every other member has probability 0.0.
C12_TruncationSelectCompletes ==
    TruncationCase =>
        /\ err = None
        /\ gen.fn = "_roulette_wheel"
        /\ Len(gen.scale_list) = Len(fitness_list)
        /\ Cardinality(AboveCutoff) = Round(Mul(self.trunc_rate, Q(Len(fitness_list), 1)))
        /\ \A m \in Members :
            IF m \in AboveCutoff
            THEN Probability(m) # Zero
                    /\ \A o \in AboveCutoff : Probability(o) = Probability(m)
            ELSE Probability(m) = Zero

\* C13: the members FitnessTruncationRanking.select() can yield are the
\* cutoff_rank best members under the list's objective, each with the same
\* probability; a member ranked below the cutoff is never yielded.
C13_TruncationYieldsBest ==
    (TruncationCase /\ WheelReturned("FitnessTruncationRanking") /\ TargetGiven) =>
        LET favoured == {m \in Members : Probability(m) # Zero}
        IN  /\ Cardinality(favoured) = Round(Mul(self.trunc_rate, Q(Len(fitness_list), 1)))
            /\ \A a, b \in favoured : Probability(a) = Probability(b)
            /\ \A a \in favoured : \A b \in Members \ favoured : AtLeastAsGood(a, b)
            /\ \A i \in 1..Len(out) :
                /\ out[i] \in favoured
                /\ \A b \in Members \ favoured : AtLeastAsGood(out[i], b)

\* ------------------------------------- claims: proportionate, linear scaling
StrictlyBetter(a, b) == Less(Goodness(a), Goodness(b))

\* C14: FitnessProportionate with 'linear' scaling, over any MAX or MIN list
\* its constructor accepts: whenever member a's score is strictly better than
\* member b's under the list's objective, the roulette probability of a is
\* greater than or equal to that of b, and no probability is negative.
C14_LinearFavoursBetter ==
    (/\ WheelReturned("FitnessProportionate")
     /\ self.scaling_type = "linear"
     /\ fitness_type \in {MAX, MIN}) =>
        /\ \A m \in Members : Leq(Zero, Probability(m))
        /\ \A a, b \in Members :
            StrictlyBetter(a, b) => Leq(Probability(b), Probability(a))

\* ------------------------------------------------ claims: repeated select()
\* C15: for FitnessElites and ReplacementDeleteWorst over an unchanged list,
\* draining select() a second (or any later) time on the same instance yields
\* the same sequence of member ids as the first time: scale-for-direction is
\* not applied again on top of the previous call's.
C15_RepeatedSelectSame ==
    self.kind \in {"FitnessElites", "ReplacementDeleteWorst"} =>
        \A i \in 1..Len(drained) : drained[i] = drained[1]

====
